---- MODULE Spec2Model ----
(***************************************************************************)
(* Online Exam Management API: accounts, bearer tokens, the access guard   *)
(* and the role checks of the Students / Exams / Results handlers.         *)
(*                                                                         *)
(* Storage is the relational database behind SQLAlchemy: every table is a  *)
(* set of rows, primary keys come from per-table serial counters that are  *)
(* never reused, and the unique / foreign-key constraints declared in      *)
(* models.py make a commit fail (an unhandled IntegrityError, HTTP 500).   *)
(* The clock counts minutes; python-jose compares whole time units with    *)
(* "exp < now", which is kept here at the model's granularity.             *)
(***************************************************************************)
EXTENDS Integers, Sequences, FiniteSets, TLC

\* ------------------------------------------------------------------ bounds
MaxAccounts == 3
MaxStudents == 2
MaxExams == 1
MaxResults == 2
MaxTokens == 2
MaxTicks == 2
MaxProcs == 2

\* ----------------------------------------------------------- configuration
SECRET_KEY == "supersecretkey123"
ACCESS_TOKEN_EXPIRE_MINUTES == 30
ADMIN_CONTACT == "admin@example.com"
ADMIN_NAME == <<"Administrator">>
ADMIN_PASSWORD == "admin123"
MinPasswordLen == 6

\* ------------------------------------------------------------ input domains
NoneStr == "<None>"
StudentContact == "s1@x.com"
Contacts == {ADMIN_CONTACT, StudentContact}
LoginContacts == Contacts \cup {"", "nobody@x.com"}
Roles == {"student", "teacher", "admin"}
RegPasswords == {"pass123", "abc", ""}
LoginPasswords == {ADMIN_PASSWORD, "pass123", ""}
FullNames == {<<"Ann">>, <<" ", "Ann", " ">>}
StudentNumbers == {StudentContact, "n2"}
StudentNames == {<<"Bob">>}
Emails == {NoneStr, ADMIN_CONTACT, "nobody@x.com"}
Titles == {"Midterm"}
Scores == {88}
Ages == {<<20>>}
Grades == {<<>>}
Marks == {100}
Procs == 1..MaxProcs

VARIABLES accounts, students, exams, results, seq, tokens, now, ticks, last, reg

vars == <<accounts, students, exams, results, seq, tokens, now, ticks, last, reg>>
db == <<accounts, students, exams, results, seq>>

\* ------------------------------------------------------------------ helpers
RECURSIVE lstrip(_)
lstrip(s) == IF s # <<>> /\ Head(s) = " " THEN lstrip(Tail(s)) ELSE s

RECURSIVE rstrip(_)
rstrip(s) == IF s # <<>> /\ s[Len(s)] = " " THEN rstrip(SubSeq(s, 1, Len(s) - 1)) ELSE s

strip(s) == rstrip(lstrip(s))

Get(payload, k, dflt) == IF k \in DOMAIN payload THEN payload[k] ELSE dflt

NoAccount == [id |-> 0, contact |-> "", fullname |-> <<>>, password_hash |-> <<>>, role |-> "none"]

NoStudent == [id |-> 0, student_number |-> "", name |-> <<>>, email |-> NoneStr, age |-> <<>>, grade |-> <<>>, account_id |-> 0]

NoExam == [id |-> 0, title |-> "", total_marks |-> 0]

NoResult == [id |-> 0, student_id |-> 0, exam_id |-> 0, score |-> 0]

First(rows, none) == IF rows = {} THEN none ELSE CHOOSE r \in rows : \A q \in rows : r.id <= q.id

AccountByContact(accs, contact) == First({a \in accs : a.contact = contact}, NoAccount)

AccountById(accs, id) == First({a \in accs : a.id = id}, NoAccount)

StudentByAccount(studs, account_id) == First({s \in studs : s.account_id = account_id}, NoStudent)

StudentById(studs, id) == First({s \in studs : s.id = id}, NoStudent)

ExamById(exs, id) == First({e \in exs : e.id = id}, NoExam)

ResultById(res, id) == First({r \in res : r.id = id}, NoResult)

\* ------------------------------------------------------ storage constraints
AccountInsertOK(accs, row) == \A a \in accs : a.id # row.id /\ a.contact # row.contact

StudentWriteOK(studs, accs, row) ==
    /\ \A s \in studs : s.id # row.id =>
          /\ s.student_number # row.student_number
          /\ (row.account_id # 0 => s.account_id # row.account_id)
    /\ row.account_id # 0 => \E a \in accs : a.id = row.account_id

\* ------------------------------------------------------------- credentials
pwd_hash(password) == <<"argon2", password>>

verify_password(plain_password, hashed_password) == hashed_password = pwd_hash(plain_password)

hash_password_ok(password) == ~(password = "" \/ Len(password) < MinPasswordLen)

validate_role_any(role) == role \in {"student", "teacher", "admin"}

validate_role(role) == role \in {"student", "teacher"}

\* ------------------------------------------------------------------ tokens
jwt_encode(to_encode, key) == [payload |-> to_encode, key |-> key]

jwt_decode_ok(token, key, clock) ==
    /\ token.key = key
    /\ "exp" \in DOMAIN token.payload => ~(token.payload.exp < clock)

NoDelta == <<>>

Falsy(expires_delta) == expires_delta = NoDelta \/ expires_delta[1] = 0

auth_create_access_token(data, expires_delta, clock) ==
    LET delta == IF Falsy(expires_delta) THEN ACCESS_TOKEN_EXPIRE_MINUTES ELSE expires_delta[1]
        base == [k \in DOMAIN data \ {"exp"} |-> data[k]]
    IN jwt_encode(base @@ [exp |-> clock + delta], SECRET_KEY)

utils_create_access_token(user_id, contact, role, expires_delta, clock) ==
    LET delta == IF Falsy(expires_delta) THEN ACCESS_TOKEN_EXPIRE_MINUTES ELSE expires_delta[1]
    IN jwt_encode([sub |-> contact, user_id |-> user_id, role |-> role, exp |-> clock + delta], SECRET_KEY)

app_create_access_token(data, expires_minutes, clock) ==
    LET base == [k \in DOMAIN data \ {"exp"} |-> data[k]]
    IN jwt_encode(base @@ [exp |-> clock + expires_minutes], SECRET_KEY)

\* ------------------------------------------------------------ access guard
GuardErr(status, detail) == [status |-> status, detail |-> detail, account |-> NoAccount]

get_current_account_no_lookup(token, accs, clock) ==
    LET user_id == Get(token.payload, "user_id", 0)
    IN IF ~jwt_decode_ok(token, SECRET_KEY, clock) THEN GuardErr(401, "Invalid token")
       ELSE IF user_id = 0 THEN GuardErr(401, "Invalid token")
       ELSE [status |-> 200, detail |-> "",
             account |-> [id |-> user_id, contact |-> Get(token.payload, "sub", ""), fullname |-> <<>>,
                          password_hash |-> <<>>, role |-> Get(token.payload, "role", "none")]]

get_current_account(token, accs, clock) ==
    LET user_id == Get(token.payload, "user_id", 0)
    IN IF ~jwt_decode_ok(token, SECRET_KEY, clock) THEN GuardErr(401, "Invalid token")
       ELSE IF user_id = 0 THEN GuardErr(401, "Invalid token")
       ELSE IF AccountById(accs, user_id) = NoAccount THEN GuardErr(401, "Account not found")
       ELSE [status |-> 200, detail |-> "", account |-> AccountById(accs, user_id)]

utils_get_current_account(token, accs, clock) ==
    LET contact == Get(token.payload, "sub", "")
        user_id == Get(token.payload, "user_id", 0)
        role == Get(token.payload, "role", "")
        match == {a \in accs : a.id = user_id /\ a.contact = contact}
    IN IF ~jwt_decode_ok(token, SECRET_KEY, clock) THEN GuardErr(401, "Invalid token")
       ELSE IF contact = "" \/ user_id = 0 \/ role = "" THEN GuardErr(401, "Invalid token payload")
       ELSE IF match = {} THEN GuardErr(401, "Account not found")
       ELSE [status |-> 200, detail |-> "", account |-> First(match, NoAccount)]

ForgedToken == jwt_encode([sub |-> ADMIN_CONTACT, user_id |-> 1, role |-> "admin", exp |-> 1000], "forged-key")

Presentable == tokens

Keep(toks, t) == IF Cardinality(toks \cup {t}) <= MaxTokens THEN toks \cup {t} ELSE toks

\* ---------------------------------------------------------------- responses
Resp(op, caller, req, status, detail, body) ==
    [op |-> op, caller |-> caller, req |-> req, status |-> status, detail |-> detail, body |-> body]

NoResp == Resp("none", 0, <<>>, 0, "", <<>>)

TokenBody(token, account) == [access_token |-> token, token_type |-> "bearer", role |-> account.role, user_id |-> account.id]

\* -------------------------------------------------------------------- Init
seed_admin == [id |-> 1, contact |-> ADMIN_CONTACT, fullname |-> ADMIN_NAME,
               password_hash |-> pwd_hash(ADMIN_PASSWORD), role |-> "admin"]

IdleProc == [pc |-> "idle", contact |-> "", fullname |-> <<>>, password |-> "", role |-> "",
             account |-> NoAccount, status |-> 0, detail |-> ""]

Init ==
    /\ accounts = {seed_admin}
    /\ students = {}
    /\ exams = {}
    /\ results = {}
    /\ seq = [accounts |-> 2, students |-> 1, exams |-> 1, results |-> 1]
    /\ tokens = {}
    /\ now = 0
    /\ ticks = 0
    /\ last = NoResp
    /\ reg = [p \in Procs |-> IdleProc]

\* ---------------------------------------------------------------- register
RegisterCheck(accs, contact, password, role) ==
    IF ~validate_role(role) THEN "Role must be 'student' or 'teacher'"
    ELSE IF AccountByContact(accs, contact) # NoAccount THEN "Contact already registered"
    ELSE IF ~hash_password_ok(password) THEN "Password must be at least 6 characters"
    ELSE ""

NewAccount(id, contact, fullname, password, role) ==
    [id |-> id, contact |-> contact, fullname |-> strip(fullname),
     password_hash |-> pwd_hash(password), role |-> role]

RegStudent(id, account) ==
    [id |-> id, student_number |-> account.contact, name |-> account.fullname,
     email |-> account.contact, age |-> <<>>, grade |-> <<>>, account_id |-> account.id]

LoginToken(account, clock) ==
    auth_create_access_token([sub |-> account.contact, user_id |-> account.id, role |-> account.role], NoDelta, clock)

register(contact, fullname, password, role) ==
    LET err == RegisterCheck(accounts, contact, password, role)
        account == NewAccount(seq.accounts, contact, fullname, password, role)
        student == RegStudent(seq.students, account)
        token == LoginToken(account, now)
    IN IF err # ""
       THEN /\ last' = Resp("register", 0, <<>>, 400, err, <<>>)
            /\ UNCHANGED <<accounts, students, seq, tokens>>
       ELSE /\ seq.accounts <= MaxAccounts
            /\ accounts' = accounts \cup {account}
            /\ IF role = "student"
               THEN /\ seq.students <= MaxStudents
                    /\ seq' = [seq EXCEPT !.accounts = @ + 1, !.students = @ + 1]
                    /\ IF StudentWriteOK(students, accounts', student)
                       THEN /\ students' = students \cup {student}
                            /\ tokens' = Keep(tokens, token)
                            /\ last' = Resp("register", 0, <<>>, 200, "", TokenBody(token, account))
                       ELSE /\ last' = Resp("register", 0, <<>>, 500, "IntegrityError", <<>>)
                            /\ UNCHANGED <<students, tokens>>
               ELSE /\ seq' = [seq EXCEPT !.accounts = @ + 1]
                    /\ tokens' = Keep(tokens, token)
                    /\ last' = Resp("register", 0, <<>>, 200, "", TokenBody(token, account))
                    /\ UNCHANGED students

Register ==
    /\ last = NoResp
    /\ \E contact \in Contacts, fullname \in FullNames, password \in RegPasswords, role \in Roles :
          register(contact, fullname, password, role)
    /\ UNCHANGED <<exams, results, now, ticks, reg>>

\* ------------------------------------------------------------------- login
LoginCheck_leaky(accs, contact, password) ==
    LET account == AccountByContact(accs, contact)
    IN IF contact = "" \/ password = "" THEN [status |-> 400, detail |-> "Contact and password are required"]
       ELSE IF account = NoAccount THEN [status |-> 404, detail |-> "Account not found"]
       ELSE IF ~verify_password(password, account.password_hash)
            THEN [status |-> 401, detail |-> "Invalid credentials"]
       ELSE [status |-> 200, detail |-> ""]

LoginCheck(accs, contact, password) ==
    LET account == AccountByContact(accs, contact)
    IN IF contact = "" \/ password = "" THEN [status |-> 400, detail |-> "Contact and password are required"]
       ELSE IF account = NoAccount \/ ~verify_password(password, account.password_hash)
            THEN [status |-> 401, detail |-> "Invalid credentials"]
       ELSE [status |-> 200, detail |-> ""]

login(contact, password) ==
    LET chk == LoginCheck(accounts, contact, password)
        account == AccountByContact(accounts, contact)
        token == LoginToken(account, now)
    IN IF chk.status # 200
       THEN /\ last' = Resp("login", 0, <<contact, password>>, chk.status, chk.detail, <<>>)
            /\ UNCHANGED tokens
       ELSE /\ tokens' = Keep(tokens, token)
            /\ last' = Resp("login", 0, <<contact, password>>, 200, "", TokenBody(token, account))

Login ==
    /\ last = NoResp
    /\ \E contact \in LoginContacts, password \in LoginPasswords : login(contact, password)
    /\ UNCHANGED <<accounts, students, exams, results, seq, now, ticks, reg>>

\* ------------------------------------------------------- protected handlers
has_write_role_any(role) == role \in {"admin", "teacher", "student"}

has_write_role(role) == role \in {"admin", "teacher"}

Denied(op, g) ==
    /\ last' = Resp(op, 0, <<>>, g.status, g.detail, <<>>)
    /\ UNCHANGED <<accounts, students, exams, results, seq>>

Fail(op, g, status, detail) ==
    /\ last' = Resp(op, g.account.id, <<>>, status, detail, <<>>)
    /\ UNCHANGED <<accounts, students, exams, results, seq>>

StudentCreates == [student_number : StudentNumbers, name : StudentNames, email : Emails, age : Ages, grade : Grades]

ExamCreates == [title : Titles, total_marks : Marks]

ResultCreates == [student_id : 1..MaxStudents, exam_id : 1..MaxExams, score : Scores]

\* ---------------------------------------------------------------- students
students_visible(account, studs) ==
    IF account.role = "student"
    THEN {s \in studs : s = StudentByAccount(studs, account.id)}
    ELSE studs

get_students(token) ==
    LET g == get_current_account(token, accounts, now)
    IN IF g.status # 200 THEN Denied("get_students", g)
       ELSE /\ last' = Resp("get_students", g.account.id, <<>>, 200, "", students_visible(g.account, students))
            /\ UNCHANGED <<accounts, students, exams, results, seq>>

add_student(token, student) ==
    LET g == get_current_account(token, accounts, now)
        account == AccountByContact(accounts, student.email)
        new_student == [id |-> seq.students, student_number |-> student.student_number,
                        name |-> student.name, email |-> student.email, age |-> student.age,
                        grade |-> student.grade, account_id |-> account.id]
    IN IF g.status # 200 THEN Denied("add_student", g)
       ELSE IF ~has_write_role(g.account.role) THEN Fail("add_student", g, 403, "No permission")
       ELSE IF account = NoAccount THEN Fail("add_student", g, 400, "No account found")
       ELSE /\ seq.students <= MaxStudents
            /\ seq' = [seq EXCEPT !.students = @ + 1]
            /\ UNCHANGED <<accounts, exams, results>>
            /\ IF StudentWriteOK(students, accounts, new_student)
               THEN /\ students' = students \cup {new_student}
                    /\ last' = Resp("add_student", g.account.id, <<>>, 200, "", new_student)
               ELSE /\ last' = Resp("add_student", g.account.id, <<>>, 500, "IntegrityError", <<>>)
                    /\ UNCHANGED students

update_student(token, student_id, student) ==
    LET g == get_current_account(token, accounts, now)
        s == StudentById(students, student_id)
        upd == [s EXCEPT !.student_number = student.student_number, !.name = student.name,
                         !.email = student.email, !.age = student.age, !.grade = student.grade]
    IN IF g.status # 200 THEN Denied("update_student", g)
       ELSE IF s = NoStudent THEN Fail("update_student", g, 404, "Student not found")
       ELSE IF ~has_write_role(g.account.role) THEN Fail("update_student", g, 403, "No permission")
       ELSE IF ~StudentWriteOK(students, accounts, upd) THEN Fail("update_student", g, 500, "IntegrityError")
       ELSE /\ students' = (students \ {s}) \cup {upd}
            /\ last' = Resp("update_student", g.account.id, <<>>, 200, "", upd)
            /\ UNCHANGED <<accounts, exams, results, seq>>

delete_student_role_first(token, student_id) ==
    LET g == get_current_account(token, accounts, now)
        s == StudentById(students, student_id)
    IN IF g.status # 200 THEN Denied("delete_student", g)
       ELSE IF ~has_write_role(g.account.role) THEN Fail("delete_student", g, 403, "No permission")
       ELSE IF s = NoStudent THEN Fail("delete_student", g, 404, "Student not found")
       ELSE IF \E r \in results : r.student_id = s.id THEN Fail("delete_student", g, 500, "IntegrityError")
       ELSE /\ students' = students \ {s}
            /\ last' = Resp("delete_student", g.account.id, <<>>, 200, "Student deleted", <<>>)
            /\ UNCHANGED <<accounts, exams, results, seq>>

delete_student(token, student_id) ==
    LET g == get_current_account(token, accounts, now)
        s == StudentById(students, student_id)
    IN IF g.status # 200 THEN Denied("delete_student", g)
       ELSE IF s = NoStudent THEN Fail("delete_student", g, 404, "Student not found")
       ELSE IF ~has_write_role(g.account.role) THEN Fail("delete_student", g, 403, "No permission")
       ELSE IF \E r \in results : r.student_id = s.id THEN Fail("delete_student", g, 500, "IntegrityError")
       ELSE /\ students' = students \ {s}
            /\ last' = Resp("delete_student", g.account.id, <<>>, 200, "Student deleted", <<>>)
            /\ UNCHANGED <<accounts, exams, results, seq>>

\* ------------------------------------------------------------------- exams
get_exams(token) ==
    LET g == get_current_account(token, accounts, now)
    IN IF g.status # 200 THEN Denied("get_exams", g)
       ELSE /\ last' = Resp("get_exams", g.account.id, <<>>, 200, "", exams)
            /\ UNCHANGED <<accounts, students, exams, results, seq>>

add_exam(token, exam) ==
    LET g == get_current_account(token, accounts, now)
        new_exam == [id |-> seq.exams, title |-> exam.title, total_marks |-> exam.total_marks]
    IN IF g.status # 200 THEN Denied("add_exam", g)
       ELSE IF ~has_write_role(g.account.role) THEN Fail("add_exam", g, 403, "No permission")
       ELSE /\ seq.exams <= MaxExams
            /\ seq' = [seq EXCEPT !.exams = @ + 1]
            /\ exams' = exams \cup {new_exam}
            /\ last' = Resp("add_exam", g.account.id, <<>>, 200, "", new_exam)
            /\ UNCHANGED <<accounts, students, results>>

update_exam(token, exam_id, exam) ==
    LET g == get_current_account(token, accounts, now)
        e == ExamById(exams, exam_id)
        upd == [e EXCEPT !.title = exam.title, !.total_marks = exam.total_marks]
    IN IF g.status # 200 THEN Denied("update_exam", g)
       ELSE IF e = NoExam THEN Fail("update_exam", g, 404, "Exam not found")
       ELSE IF ~has_write_role(g.account.role) THEN Fail("update_exam", g, 403, "No permission")
       ELSE /\ exams' = (exams \ {e}) \cup {upd}
            /\ last' = Resp("update_exam", g.account.id, <<>>, 200, "", upd)
            /\ UNCHANGED <<accounts, students, results, seq>>

delete_exam_unchecked(token, exam_id) ==
    LET g == get_current_account(token, accounts, now)
        e == ExamById(exams, exam_id)
    IN IF g.status # 200 THEN Denied("delete_exam", g)
       ELSE IF e = NoExam THEN Fail("delete_exam", g, 404, "Exam not found")
       ELSE IF ~has_write_role(g.account.role) THEN Fail("delete_exam", g, 403, "No permission")
       ELSE /\ exams' = exams \ {e}
            /\ last' = Resp("delete_exam", g.account.id, <<>>, 200, "Exam deleted", <<>>)
            /\ UNCHANGED <<accounts, students, results, seq>>

delete_exam(token, exam_id) ==
    LET g == get_current_account(token, accounts, now)
        e == ExamById(exams, exam_id)
    IN IF g.status # 200 THEN Denied("delete_exam", g)
       ELSE IF e = NoExam THEN Fail("delete_exam", g, 404, "Exam not found")
       ELSE IF ~has_write_role(g.account.role) THEN Fail("delete_exam", g, 403, "No permission")
       ELSE IF \E r \in results : r.exam_id = e.id THEN Fail("delete_exam", g, 500, "IntegrityError")
       ELSE /\ exams' = exams \ {e}
            /\ last' = Resp("delete_exam", g.account.id, <<>>, 200, "Exam deleted", <<>>)
            /\ UNCHANGED <<accounts, students, results, seq>>

\* ----------------------------------------------------------------- results
ResultOut(r, studs, exs) ==
    [id |-> r.id, student_id |-> r.student_id,
     student_name |-> IF StudentById(studs, r.student_id) # NoStudent
                      THEN StudentById(studs, r.student_id).name ELSE <<"Unknown">>,
     exam_id |-> r.exam_id,
     exam_title |-> IF ExamById(exs, r.exam_id) # NoExam
                    THEN ExamById(exs, r.exam_id).title ELSE "Unknown",
     score |-> r.score]

results_visible_all(account, studs, res) == res

results_visible(account, studs, res) ==
    LET student == StudentByAccount(studs, account.id)
    IN IF account.role = "student"
       THEN IF student = NoStudent THEN {} ELSE {r \in res : r.student_id = student.id}
       ELSE res

get_results(token) ==
    LET g == get_current_account(token, accounts, now)
    IN IF g.status # 200 THEN Denied("get_results", g)
       ELSE /\ last' = Resp("get_results", g.account.id, <<>>, 200, "",
                            {ResultOut(r, students, exams) : r \in results_visible(g.account, students, results)})
            /\ UNCHANGED <<accounts, students, exams, results, seq>>

add_result_exam_first(token, result) ==
    LET g == get_current_account(token, accounts, now)
        student == StudentById(students, result.student_id)
        exam == ExamById(exams, result.exam_id)
        new_result == [id |-> seq.results, student_id |-> student.id, exam_id |-> exam.id, score |-> result.score]
    IN IF g.status # 200 THEN Denied("add_result", g)
       ELSE IF ~has_write_role(g.account.role) THEN Fail("add_result", g, 403, "No permission")
       ELSE IF exam = NoExam THEN Fail("add_result", g, 404, "Exam not found")
       ELSE IF student = NoStudent THEN Fail("add_result", g, 404, "Student not found")
       ELSE /\ seq.results <= MaxResults
            /\ seq' = [seq EXCEPT !.results = @ + 1]
            /\ results' = results \cup {new_result}
            /\ last' = Resp("add_result", g.account.id, <<>>, 200, "", ResultOut(new_result, students, exams))
            /\ UNCHANGED <<accounts, students, exams>>

add_result(token, result) ==
    LET g == get_current_account(token, accounts, now)
        student == StudentById(students, result.student_id)
        exam == ExamById(exams, result.exam_id)
        new_result == [id |-> seq.results, student_id |-> student.id, exam_id |-> exam.id, score |-> result.score]
    IN IF g.status # 200 THEN Denied("add_result", g)
       ELSE IF ~has_write_role(g.account.role) THEN Fail("add_result", g, 403, "No permission")
       ELSE IF student = NoStudent THEN Fail("add_result", g, 404, "Student not found")
       ELSE IF exam = NoExam THEN Fail("add_result", g, 404, "Exam not found")
       ELSE /\ seq.results <= MaxResults
            /\ seq' = [seq EXCEPT !.results = @ + 1]
            /\ results' = results \cup {new_result}
            /\ last' = Resp("add_result", g.account.id, <<>>, 200, "", ResultOut(new_result, students, exams))
            /\ UNCHANGED <<accounts, students, exams>>

update_result(token, result_id, result) ==
    LET g == get_current_account(token, accounts, now)
        r == ResultById(results, result_id)
        student == StudentById(students, result.student_id)
        exam == ExamById(exams, result.exam_id)
        upd == [r EXCEPT !.student_id = student.id, !.exam_id = exam.id, !.score = result.score]
    IN IF g.status # 200 THEN Denied("update_result", g)
       ELSE IF r = NoResult THEN Fail("update_result", g, 404, "Result not found")
       ELSE IF ~has_write_role(g.account.role) THEN Fail("update_result", g, 403, "No permission")
       ELSE IF student = NoStudent THEN Fail("update_result", g, 404, "Student not found")
       ELSE IF exam = NoExam THEN Fail("update_result", g, 404, "Exam not found")
       ELSE /\ results' = (results \ {r}) \cup {upd}
            /\ last' = Resp("update_result", g.account.id, <<>>, 200, "", ResultOut(upd, students, exams))
            /\ UNCHANGED <<accounts, students, exams, seq>>

delete_result(token, result_id) ==
    LET g == get_current_account(token, accounts, now)
        r == ResultById(results, result_id)
    IN IF g.status # 200 THEN Denied("delete_result", g)
       ELSE IF r = NoResult THEN Fail("delete_result", g, 404, "Result not found")
       ELSE IF ~has_write_role(g.account.role) THEN Fail("delete_result", g, 403, "No permission")
       ELSE /\ results' = results \ {r}
            /\ last' = Resp("delete_result", g.account.id, <<>>, 200, "Result deleted", <<>>)
            /\ UNCHANGED <<accounts, students, exams, seq>>

\* ---------------------------------------------------------- request actions
Quiet == last = NoResp /\ UNCHANGED <<tokens, now, ticks, reg>>

GetStudents == Quiet /\ \E token \in Presentable : get_students(token)

AddStudent == Quiet /\ \E token \in Presentable, student \in StudentCreates : add_student(token, student)

UpdateStudent == Quiet /\ \E token \in Presentable, id \in 1..MaxStudents, student \in StudentCreates : update_student(token, id, student)

DeleteStudent == Quiet /\ \E token \in Presentable, id \in 1..MaxStudents : delete_student(token, id)

GetExams == Quiet /\ \E token \in Presentable : get_exams(token)

AddExam == Quiet /\ \E token \in Presentable, exam \in ExamCreates : add_exam(token, exam)

UpdateExam == Quiet /\ \E token \in Presentable, id \in 1..MaxExams, exam \in ExamCreates : update_exam(token, id, exam)

DeleteExam == Quiet /\ \E token \in Presentable, id \in 1..MaxExams : delete_exam(token, id)

GetResults == Quiet /\ \E token \in Presentable : get_results(token)

AddResult == Quiet /\ \E token \in Presentable, result \in ResultCreates : add_result(token, result)

UpdateResult == Quiet /\ \E token \in Presentable, id \in 1..MaxResults, result \in ResultCreates : update_result(token, id, result)

DeleteResult == Quiet /\ \E token \in Presentable, id \in 1..MaxResults : delete_result(token, id)

Respond ==
    /\ last # NoResp
    /\ last' = NoResp
    /\ UNCHANGED <<accounts, students, exams, results, seq, tokens, now, ticks, reg>>

Next ==
    \/ Respond
    \/ Register
    \/ Login
    \/ GetStudents
    \/ AddStudent
    \/ UpdateStudent
    \/ DeleteStudent
    \/ GetExams
    \/ AddExam
    \/ UpdateExam
    \/ DeleteExam
    \/ GetResults
    \/ AddResult
    \/ UpdateResult
    \/ DeleteResult

Spec == Init /\ [][Next]_vars

\* ------------------------------------------------- clock and storage events
Tick ==
    /\ ticks < MaxTicks
    /\ \E d \in {1, ACCESS_TOKEN_EXPIRE_MINUTES} : now' = now + d
    /\ ticks' = ticks + 1
    /\ UNCHANGED <<accounts, students, exams, results, seq, tokens, last, reg>>

DeleteAccountRow ==
    /\ last = NoResp
    /\ \E a \in accounts :
          /\ \A s \in students : s.account_id # a.id
          /\ accounts' = accounts \ {a}
    /\ UNCHANGED <<students, exams, results, seq, tokens, now, ticks, last, reg>>

AcctNext ==
    \/ Respond
    \/ Register
    \/ Login
    \/ GetStudents
    \/ DeleteStudent
    \/ Tick
    \/ DeleteAccountRow

SpecAcct == Init /\ [][AcctNext]_vars

\* ------------------------------------------- direct use of the token helpers
Claims == {"sub", "user_id", "role"}

DataOf(account, keep) ==
    [k \in keep |-> CASE k = "sub" -> account.contact
                      [] k = "user_id" -> account.id
                      [] OTHER -> account.role]

Deltas == {NoDelta, <<0>>, <<1>>}

Minutes == {0, 1, ACCESS_TOKEN_EXPIRE_MINUTES}

Issued(fn, token, ttl) ==
    /\ last = NoResp
    /\ tokens' = {token}
    /\ last' = Resp("issue", 0, <<>>, 200, fn, [token |-> token, ttl |-> ttl])
    /\ UNCHANGED <<accounts, students, exams, results, seq, now, ticks, reg>>

IssueAuth ==
    \E a \in accounts, keep \in SUBSET Claims, delta \in Deltas :
        Issued("routes.auth", auth_create_access_token(DataOf(a, keep), delta, now),
               IF delta = NoDelta THEN ACCESS_TOKEN_EXPIRE_MINUTES ELSE delta[1])

IssueUtils ==
    \E a \in accounts, delta \in Deltas :
        Issued("auth_utils", utils_create_access_token(a.id, a.contact, a.role, delta, now),
               IF delta = NoDelta THEN ACCESS_TOKEN_EXPIRE_MINUTES ELSE delta[1])

IssueApp ==
    \E a \in accounts, keep \in SUBSET Claims, minutes \in Minutes :
        Issued("app", app_create_access_token(DataOf(a, keep), minutes, now), minutes)

IssueForged ==
    /\ last = NoResp
    /\ tokens' = {ForgedToken}
    /\ UNCHANGED <<accounts, students, exams, results, seq, now, ticks, last, reg>>

TokNext ==
    \/ Respond
    \/ IssueAuth
    \/ IssueUtils
    \/ IssueApp
    \/ IssueForged
    \/ Tick
    \/ GetExams
    \/ AddExam

SpecTok == Init /\ [][TokNext]_vars

\* ------------------------------------------------ concurrent registrations
Finish(p, r, account, status, detail) ==
    /\ reg' = [reg EXCEPT ![p] = [r EXCEPT !.pc = "done", !.account = account,
                                           !.status = status, !.detail = detail]]
    /\ last' = Resp("register", 0, <<>>, status, detail,
                    IF status = 200 THEN TokenBody(LoginToken(account, now), account) ELSE <<>>)
    /\ tokens' = IF status = 200 THEN Keep(tokens, LoginToken(account, now)) ELSE tokens

RegBegin(p) ==
    /\ reg[p].pc = "idle"
    /\ \E contact \in Contacts, fullname \in FullNames, password \in RegPasswords, role \in Roles :
          LET r == [reg[p] EXCEPT !.contact = contact, !.fullname = fullname,
                                  !.password = password, !.role = role]
              err == RegisterCheck(accounts, contact, password, role)
          IN IF err # ""
             THEN Finish(p, r, NoAccount, 400, err)
             ELSE /\ reg' = [reg EXCEPT ![p] = [r EXCEPT !.pc = "insert"]]
                  /\ UNCHANGED <<last, tokens>>
    /\ UNCHANGED <<accounts, students, exams, results, seq, now, ticks>>

RegInsertAccount(p) ==
    LET r == reg[p]
        account == NewAccount(seq.accounts, r.contact, r.fullname, r.password, r.role)
    IN /\ r.pc = "insert"
       /\ seq.accounts <= MaxAccounts
       /\ seq' = [seq EXCEPT !.accounts = @ + 1]
       /\ IF ~AccountInsertOK(accounts, account)
          THEN /\ Finish(p, r, NoAccount, 500, "IntegrityError")
               /\ UNCHANGED accounts
          ELSE /\ accounts' = accounts \cup {account}
               /\ IF r.role = "student"
                  THEN /\ reg' = [reg EXCEPT ![p] = [r EXCEPT !.pc = "student", !.account = account]]
                       /\ UNCHANGED <<last, tokens>>
                  ELSE Finish(p, r, account, 200, "")
       /\ UNCHANGED <<students, exams, results, now, ticks>>

RegInsertStudent(p) ==
    LET r == reg[p]
        student == RegStudent(seq.students, r.account)
    IN /\ r.pc = "student"
       /\ seq.students <= MaxStudents
       /\ seq' = [seq EXCEPT !.students = @ + 1]
       /\ IF StudentWriteOK(students, accounts, student)
          THEN /\ students' = students \cup {student}
               /\ Finish(p, r, r.account, 200, "")
          ELSE /\ Finish(p, r, r.account, 500, "IntegrityError")
               /\ UNCHANGED students
       /\ UNCHANGED <<accounts, exams, results, now, ticks>>

RegBeginAny == \E p \in Procs : RegBegin(p)

RegInsertAccountAny == \E p \in Procs : RegInsertAccount(p)

RegInsertStudentAny == \E p \in Procs : RegInsertStudent(p)

RaceNext ==
    \/ RegBeginAny
    \/ RegInsertAccountAny
    \/ RegInsertStudentAny

SpecRace == Init /\ [][RaceNext]_vars

\* ================================================================== claims
WriteOps == {"add_student", "update_student", "delete_student", "add_exam", "update_exam",
             "delete_exam", "add_result", "update_result", "delete_result"}

CallerRole(accs, resp) == AccountById(accs, resp.caller).role

OwnStudentIds(account_id) == {s.id : s \in {x \in students : x.account_id = account_id}}

\* C1: a successful List Results by a student-role account returns exactly the
\* rows whose student_id is the id of the Student linked to that account (none
\* when no Student is linked); by an admin or teacher account it returns every row.
C1_ListResultsScoped ==
    (last.op = "get_results" /\ last.status = 200) =>
        LET rows == {[id |-> b.id, student_id |-> b.student_id] : b \in last.body}
            all == {[id |-> r.id, student_id |-> r.student_id] : r \in results}
        IN IF CallerRole(accounts, last) = "student"
           THEN rows = {r \in all : r.student_id \in OwnStudentIds(last.caller)}
           ELSE /\ CallerRole(accounts, last) \in {"admin", "teacher"}
                /\ rows = all

C1_Witness ==
    /\ last.op = "get_results"
    /\ last.status = 200
    /\ CallerRole(accounts, last) = "student"
    /\ last.body # {}
    /\ \E r \in results : r.student_id \notin OwnStudentIds(last.caller)

\* C2: a Create, Update or Delete on Students, Exams or Results answered for a
\* student-role account ends in 403 or 404 and leaves the three tables as they
\* were; such a request that ends in 200 was made by an admin or teacher account.
C2_StudentRoleCannotWrite ==
    [][(last'.op \in WriteOps /\ last'.caller # 0) =>
          /\ CallerRole(accounts', last') = "student" =>
                /\ last'.status \in {403, 404}
                /\ UNCHANGED <<students, exams, results>>
          /\ last'.status = 200 => CallerRole(accounts', last') \in {"admin", "teacher"}]_vars

C2_Witness ==
    /\ last.op \in {"update_student", "delete_student", "delete_result"}
    /\ CallerRole(accounts, last) = "student"
    /\ last.status = 403
    /\ results # {}

\* C3: a Register call with role student or teacher, an unregistered contact and a
\* password of at least 6 characters leaves, for role student, a Student row with
\* student_number = contact, email = contact, name = the (trimmed) fullname and
\* account_id = the new Account's id, and for role teacher no new Student row.
C3_RegisterLinksStudent ==
    [][\A contact \in Contacts, fullname \in FullNames, password \in RegPasswords, role \in {"student", "teacher"} :
          (/\ AccountByContact(accounts, contact) = NoAccount
           /\ Len(password) >= 6
           /\ last'.op = "register"
           /\ register(contact, fullname, password, role)) =>
              IF role = "student"
              THEN \E s \in students' :
                      /\ s.student_number = contact
                      /\ s.email = contact
                      /\ s.name = strip(fullname)
                      /\ s.account_id = seq.accounts
                      /\ \E a \in accounts' : a.id = seq.accounts /\ a.contact = contact
              ELSE students' = students]_vars

\* C4: of two finished Register requests that carry the same (not seeded) contact
\* and otherwise valid inputs, exactly one created an Account and the other
\* failed with 400 "Contact already registered"; no two Accounts share a contact.
C4_DuplicateRegisterConflict ==
    /\ \A a, b \in accounts : a.contact = b.contact => a = b
    /\ \A p, q \in Procs :
          (/\ p # q
           /\ reg[p].pc = "done" /\ reg[q].pc = "done"
           /\ reg[p].contact = reg[q].contact /\ reg[p].contact # ADMIN_CONTACT
           /\ \A x \in {p, q} : reg[x].role \in {"student", "teacher"} /\ Len(reg[x].password) >= 6
           /\ reg[p].account # NoAccount) =>
              /\ reg[q].account = NoAccount
              /\ reg[q].status = 400
              /\ reg[q].detail = "Contact already registered"

\* C5: a token issued with ttl = 0 by any of the three create_access_token
\* helpers is rejected by both access guards at issuance and at every later
\* moment.
C5_ZeroTtlRejected ==
    (last.op = "issue" /\ last.body.ttl = 0 /\ {"sub", "user_id", "role"} \subseteq DOMAIN last.body.token.payload) =>
        /\ get_current_account(last.body.token, accounts, now).status = 401
        /\ utils_get_current_account(last.body.token, accounts, now).status = 401

\* C6: a token whose account id names no stored Account is rejected with 401 by
\* both access guards, in this state and in every later one (account ids are
\* never handed out again); a guard accepts a token only while an Account with
\* the token's account id (for the strict guard: and the token's contact) exists.
Gone(t) == \A a \in accounts : a.id # t.payload.user_id

C6_DeletedAccountRejected ==
    /\ [](\A t \in tokens :
            /\ get_current_account(t, accounts, now).status = 200 =>
                  \E a \in accounts : a.id = t.payload.user_id
            /\ utils_get_current_account(t, accounts, now).status = 200 =>
                  \E a \in accounts : a.id = t.payload.user_id /\ a.contact = t.payload.sub
            /\ Gone(t) =>
                  /\ get_current_account(t, accounts, now).status = 401
                  /\ utils_get_current_account(t, accounts, now).status = 401)
    /\ [][\A t \in tokens : Gone(t) =>
            /\ t \in tokens'
            /\ \A a \in accounts' : a.id # t.payload.user_id
            /\ (last'.op = "get_students" /\ tokens' = {t}) => last'.status = 401]_vars

C6_Witness ==
    /\ last.op = "get_students"
    /\ last.status = 401
    /\ last.detail = "Account not found"
    /\ \E t \in tokens :
          /\ Gone(t)
          /\ ~(t.payload.exp < now)
          /\ \E a \in accounts : a.id > t.payload.user_id

\* C7: both access guards reject every correctly signed, unexpired token that
\* lacks one of the claims sub, user_id, role, and no protected operation
\* succeeds for a caller holding only such a token.
C7_IncompleteTokenRejected ==
    /\ \A t \in tokens :
          (/\ t.key = SECRET_KEY
           /\ ~(t.payload.exp < now)
           /\ ~({"sub", "user_id", "role"} \subseteq DOMAIN t.payload)) =>
              /\ get_current_account(t, accounts, now).status = 401
              /\ utils_get_current_account(t, accounts, now).status = 401
    /\ (last.op \in {"get_exams", "add_exam"} /\ last.status = 200) =>
          \A t \in tokens : {"sub", "user_id", "role"} \subseteq DOMAIN t.payload

\* C8: a Login with a registered contact and a wrong password and a Login with
\* an unregistered contact (contact and password present) get the same answer,
\* 401 "Invalid credentials" with no token, and change no stored state.
Registered(contact) == \E a \in accounts : a.contact = contact

WrongPassword(contact, password) ==
    \E a \in accounts : a.contact = contact /\ a.password_hash # pwd_hash(password)

C8_LoginFailuresIndistinguishable ==
    /\ [](\A c1, c2 \in LoginContacts \ {""}, p1, p2 \in LoginPasswords \ {""} :
            (WrongPassword(c1, p1) /\ ~Registered(c2)) =>
                /\ LoginCheck(accounts, c1, p1) = LoginCheck(accounts, c2, p2)
                /\ LoginCheck(accounts, c1, p1) = [status |-> 401, detail |-> "Invalid credentials"])
    /\ [][(/\ last'.op = "login"
           /\ last'.req[1] # "" /\ last'.req[2] # ""
           /\ WrongPassword(last'.req[1], last'.req[2]) \/ ~Registered(last'.req[1])) =>
              /\ last'.status = 401
              /\ last'.detail = "Invalid credentials"
              /\ last'.body = <<>>
              /\ UNCHANGED <<accounts, students, exams, results, seq, tokens>>]_vars

C8_Witness ==
    /\ last.op = "login"
    /\ last.status = 401
    /\ WrongPassword(last.req[1], last.req[2])
    /\ \E c \in LoginContacts \ {""} : ~Registered(c)
    /\ Cardinality(accounts) > 1

\* C9: Register with role admin fails with 400 "Role must be 'student' or
\* 'teacher'" whatever the contact and password are, and creates no Account and
\* no Student; the only admin Account is the seeded one, and no step changes
\* the role of a stored Account.
RoleError == "Role must be 'student' or 'teacher'"

C9_NoSelfRegisteredAdmin ==
    /\ [](\A a \in accounts : a.role = "admin" => a = seed_admin)
    /\ [][/\ \A contact \in Contacts, fullname \in FullNames, password \in RegPasswords :
                (last'.op = "register" /\ register(contact, fullname, password, "admin")) =>
                    /\ last'.status = 400
                    /\ last'.detail = RoleError
                    /\ UNCHANGED <<accounts, students, tokens>>
          /\ \A a \in accounts, b \in accounts' : a.id = b.id => a.role = b.role]_vars

C9_Witness ==
    /\ last.op = "register"
    /\ last.status = 400
    /\ last.detail = RoleError
    /\ \A c \in Contacts : Registered(c)

\* C10: Create Student by an admin or teacher account with a student_number no
\* Student has yet succeeds and stores the Student, whether or not an Account
\* exists whose contact equals the given email (email absent included).
C10_CreateStudentWithoutAccount ==
    [][\A t \in tokens, student \in StudentCreates :
          (/\ get_current_account(t, accounts, now).status = 200
           /\ get_current_account(t, accounts, now).account.role \in {"admin", "teacher"}
           /\ \A s \in students : s.student_number # student.student_number
           /\ last'.op = "add_student"
           /\ add_student(t, student)) =>
              /\ last'.status = 200
              /\ \E s \in students' : s.student_number = student.student_number /\ s.email = student.email]_vars

\* C11: every Update and Delete on Students, Exams and Results checks existence
\* before permission: an authenticated caller of any role that targets an absent
\* id gets 404, a student-role caller that targets an existing id gets 403, and
\* in both cases the three tables stay as they were.
UpdDelOps == {"update_student", "delete_student", "update_exam", "delete_exam",
              "update_result", "delete_result"}

ExistenceFirst(absent, role) ==
    /\ absent => (last'.status = 404 /\ UNCHANGED <<students, exams, results>>)
    /\ (~absent /\ role = "student") => (last'.status = 403 /\ UNCHANGED <<students, exams, results>>)

Obliged(absent, role) == absent \/ role = "student"

C11_ExistenceBeforePermission ==
    [][(last'.op \in UpdDelOps /\ last'.caller # 0) =>
          \A t \in {x \in tokens : Get(x.payload, "user_id", 0) = last'.caller} :
             LET role == AccountById(accounts, last'.caller).role
                 op == last'.op
                 noStudent(id) == \A s \in students : s.id # id
                 noExam(id) == \A e \in exams : e.id # id
                 noResult(id) == \A r \in results : r.id # id
             IN /\ op = "delete_student" =>
                      \A id \in 1..MaxStudents : Obliged(noStudent(id), role) =>
                         \/ ExistenceFirst(noStudent(id), role)
                         \/ ~delete_student(t, id)
                /\ op = "update_student" =>
                      \A id \in 1..MaxStudents : Obliged(noStudent(id), role) =>
                         \/ ExistenceFirst(noStudent(id), role)
                         \/ \A student \in StudentCreates : ~update_student(t, id, student)
                /\ op = "delete_exam" =>
                      \A id \in 1..MaxExams : Obliged(noExam(id), role) =>
                         \/ ExistenceFirst(noExam(id), role)
                         \/ ~delete_exam(t, id)
                /\ op = "update_exam" =>
                      \A id \in 1..MaxExams : Obliged(noExam(id), role) =>
                         \/ ExistenceFirst(noExam(id), role)
                         \/ \A exam \in ExamCreates : ~update_exam(t, id, exam)
                /\ op = "delete_result" =>
                      \A id \in 1..MaxResults : Obliged(noResult(id), role) =>
                         \/ ExistenceFirst(noResult(id), role)
                         \/ ~delete_result(t, id)
                /\ op = "update_result" =>
                      \A id \in 1..MaxResults : Obliged(noResult(id), role) =>
                         \/ ExistenceFirst(noResult(id), role)
                         \/ \A result \in ResultCreates : ~update_result(t, id, result)]_vars

C11_Witness ==
    /\ last.op \in UpdDelOps
    /\ last.status = 404
    /\ CallerRole(accounts, last) = "student"
    /\ students # {}

\* C12: Create Result and Update Result by an admin or teacher resolve the student
\* before the exam: an absent student_id ends in 404 "Student not found" even when
\* the exam_id is absent too, an absent exam_id alone ends in 404 "Exam not found",
\* neither failure inserts or modifies a Result, and a Result is written only when
\* both referenced rows exist at that moment.
ResultWriteOps == {"add_result", "update_result"}

StudentBeforeExam(result) ==
    LET noStudent == \A s \in students : s.id # result.student_id
        noExam == \A e \in exams : e.id # result.exam_id
    IN /\ noStudent => (last'.status = 404 /\ last'.detail = "Student not found" /\ UNCHANGED results)
       /\ (~noStudent /\ noExam) => (last'.status = 404 /\ last'.detail = "Exam not found" /\ UNCHANGED results)
       /\ (~noStudent /\ ~noExam) => last'.status \notin {403, 404}

C12_WitnessExamOnly ==
    /\ last.op \in ResultWriteOps
    /\ last.detail = "Exam not found"
    /\ students # {}
    /\ exams = {}

\* C13: after any sequence of create, update and delete operations, every stored
\* Result's student_id and exam_id refer to a Student and an Exam that currently
\* exist; a delete of a Student or Exam that Results still reference removes nothing.
C13_ResultsReferToExistingRows ==
    \A r \in results :
       /\ \E s \in students : s.id = r.student_id
       /\ \E e \in exams : e.id = r.exam_id

C13_Witness ==
    /\ last.op \in {"delete_student", "delete_exam"}
    /\ last.status = 500
    /\ CallerRole(accounts, last) \in {"admin", "teacher"}
    /\ results # {}

====
